---- MODULE Spec2Model ----
(***************************************************************************)
(* Faceted song catalogue of 1001-songs-backend: the read endpoints of     *)
(* src/location/routers.py (facets, paginated list, geotags), the cache    *)
(* key derivation of src/database/redis.py and the admin hooks of          *)
(* src/admin/song.py (taxonomy guard, cache invalidation).                 *)
(***************************************************************************)
EXTENDS Integers, Sequences, FiniteSets, TLC

VARIABLES
    song,       \* table song: id -> row (with its two association sets)
    genre,      \* table genre: the ids present
    fund,       \* table fund: the ids present
    cache,      \* redis: key -> entry, for the keys present
    now,        \* redis clock, in seconds
    resp,       \* the HTTP response, when the last step was a read request
    admin,      \* the outcome, when the last step was an admin operation
    nreq,       \* read requests served so far
    nwrite,     \* admin writes done so far
    inflight    \* the request and the admin write that are between two awaits

vars == <<song, genre, fund, cache, now, resp, admin, nreq, nwrite, inflight>>

-----------------------------------------------------------------------------
(* Bounds of the model.                                                    *)

MaxActiveFilters == 2   \* filter parameters a request supplies at once
MaxPage == 2            \* highest page number a request asks for
PageSize == 2           \* rows per page
MaxRequests == 2        \* read requests in one behaviour of Spec
MaxWrites == 1          \* admin writes in one behaviour of Spec
MaxTicks == 2           \* clock steps in one behaviour of Spec

-----------------------------------------------------------------------------
(* The location hierarchy, a fixture: city 1 and city 2 lie in region 1 of *)
(* country 1, city 3 in region 2 of country 2.  Names are given by their   *)
(* rank in the collation order; cities 2 and 3 bear the same name.         *)

Countries == {1, 2}
Regions == {1, 2}
Cities == {1, 2, 3}
GenreIds == {1, 2, 3}
FundIds == {1, 2, 3}
EducationGenreIds == {1, 2}
SongIds == {1, 2, 3}

RegionCountry == <<1, 2>>      \* Region.country_id
CityRegion == <<1, 1, 2>>      \* City.region_id
CityCountry == <<1, 1, 2>>     \* City.country_id, equal to the region's
CountryName == <<2, 1>>
RegionName == <<1, 2>>
CityName == <<2, 1, 1>>
GenreName == <<1, 2, 3>>
FundTitle == <<1, 2, 3>>

(* Song titles and search strings, as sequences of characters.             *)
Titles == {<<"A", "b">>, <<"b", "a">>}
Searches == {<<>>, <<"a", "B">>}

SongRow == [city_id : Cities, fund_id : FundIds, genres : SUBSET GenreIds,
            education_genres : SUBSET EducationGenreIds, is_active : BOOLEAN,
            title : Titles]

-----------------------------------------------------------------------------
(* Cache keys.  A key is the sequence of the parts that cache_key joins    *)
(* with ":".                                                               *)

CACHE_PREFIX == "prefix"
NoArg == 0

\* redis.py:13  f"{CACHE_PREFIX}:{func}{f':{arg}' if arg else ''}"
cache_key(func, arg) ==
    IF arg # NoArg THEN <<CACHE_PREFIX, func, arg>> ELSE <<CACHE_PREFIX, func>>

-----------------------------------------------------------------------------
(* Requests.  A list parameter that is absent is the empty list: the code  *)
(* tests every one with `if param:`.                                       *)

FacetFuncs == {"get_countries", "get_regions", "get_cities", "get_genres", "get_funds"}
ReadFuncs == FacetFuncs \cup {"filter_songs", "filter_song_geotags"}
ListParams == {"country_id", "region_id", "city_id", "genre_id", "fund_id"}
IdLists == {<<>>, <<1>>, <<2, 1>>}

Supplied(q) ==
    Cardinality({p \in ListParams : q[p] # <<>>}) + (IF q.search # <<>> THEN 1 ELSE 0)

Requests ==
    {q \in [func : ReadFuncs, search : Searches, country_id : IdLists,
            region_id : IdLists, city_id : IdLists, genre_id : IdLists,
            fund_id : IdLists, page : 1..MaxPage] :
        /\ Supplied(q) <= MaxActiveFilters
        /\ q.func \in FacetFuncs => q.search = <<>>
        /\ q.func # "filter_songs" => q.page = 1}

\* a membership test that looks at the first id of the list alone
InFirst(x, list) == list # <<>> /\ list[1] = x

\* column.in_(list)
In(x, list) == \E i \in 1..Len(list) : list[i] = x

\* case folding of ILIKE
Lower(c) == CASE c = "A" -> "a" [] c = "B" -> "b" [] OTHER -> c

\* Song.title.ilike(f"%{search}%")
ILike(title, search) ==
    \E k \in 0..(Len(title) - Len(search)) :
        \A i \in 1..Len(search) : Lower(title[k + i]) = Lower(search[i])

-----------------------------------------------------------------------------
(* The queries of routers.py.  A query is evaluated as SQL evaluates it:   *)
(* the rows of the inner joins, the WHERE filter, then the grouping.       *)

\* .join(Song.genres): one row per pair of the association table
SongGenres == {sg \in (DOMAIN song) \X genre : sg[2] \in song[sg[1]].genres}

\* the filters without ~Song.education_genres.any()
BaseFiltersActiveOnly(s) == song[s].is_active

\* the filters without Song.is_active
BaseFiltersNonEducationOnly(s) == song[s].education_genres = {}

\* filters = [Song.is_active, ~Song.education_genres.any()]
BaseFilters(s) == song[s].is_active /\ song[s].education_genres = {}

\* `if param: filters.append(column.in_(param))`
Opt(list, x) == list # <<>> => In(x, list)

\* the ORDER BY of a grouped query: every order of the groups that is
\* ascending in the key; the order of groups with equal keys is the store's
Ordered(S, key) ==
    {f \in [1..Cardinality(S) -> S] :
        /\ \A i, j \in DOMAIN f : i < j => f[i] # f[j]
        /\ \A i, j \in DOMAIN f : i < j => key[f[i]] <= key[f[j]]}

Identity == [i \in 1..3 |-> i]

\* func.count(distinct(Song.id)) of the rows of one group
CountDistinct(rows, col, v) == Cardinality({r.sg[1] : r \in {x \in rows : x[col] = v}})

\* the facet list: one element per group, in one of the orders the ORDER BY allows
FacetLists(rows, col, name, key) ==
    LET groups == {r[col] : r \in rows}
    IN  {[i \in DOMAIN f |-> [id |-> f[i], name |-> name[f[i]],
                               song_count |-> CountDistinct(rows, col, f[i])]] :
            f \in Ordered(groups, key)}

get_countries_rows(q) ==
    {r \in [country : Countries, region : Regions, city : Cities, sg : SongGenres] :
        /\ RegionCountry[r.region] = r.country          \* .join(Region)
        /\ CityRegion[r.city] = r.region                \* .join(City)
        /\ song[r.sg[1]].city_id = r.city               \* .join(Song)
        /\ BaseFilters(r.sg[1])
        /\ Opt(q.city_id, r.city)
        /\ Opt(q.region_id, CityRegion[r.city])
        /\ Opt(q.fund_id, song[r.sg[1]].fund_id)
        /\ Opt(q.genre_id, r.sg[2])}

get_regions_rows(q) ==
    {r \in [region : Regions, city : Cities, sg : SongGenres] :
        /\ r.region = CityRegion[r.city]                \* .join(City, Region.id == City.region_id)
        /\ song[r.sg[1]].city_id = r.city               \* .join(Song)
        /\ BaseFilters(r.sg[1])
        /\ Opt(q.country_id, RegionCountry[r.region])
        /\ Opt(q.city_id, r.city)
        /\ Opt(q.genre_id, r.sg[2])
        /\ Opt(q.fund_id, song[r.sg[1]].fund_id)}

get_cities_rows(q) ==
    {r \in [city : Cities, sg : SongGenres] :
        /\ r.city = song[r.sg[1]].city_id               \* .join(Song, City.id == Song.city_id)
        /\ BaseFilters(r.sg[1])
        /\ Opt(q.country_id, CityCountry[r.city])
        /\ Opt(q.region_id, CityRegion[r.city])
        /\ Opt(q.genre_id, r.sg[2])
        /\ Opt(q.fund_id, song[r.sg[1]].fund_id)}

\* the genre query with the filter of its own dimension added
get_genres_rows_own_filter(q) ==
    {r \in [sg : SongGenres, city : Cities, region : Regions, country : Countries,
            fund : fund] :
        /\ song[r.sg[1]].city_id = r.city
        /\ CityRegion[r.city] = r.region
        /\ CityCountry[r.city] = r.country
        /\ song[r.sg[1]].fund_id = r.fund
        /\ BaseFilters(r.sg[1])
        /\ Opt(q.country_id, r.country)
        /\ Opt(q.region_id, r.region)
        /\ Opt(q.city_id, r.city)
        /\ Opt(q.fund_id, song[r.sg[1]].fund_id)
        /\ Opt(q.genre_id, r.sg[2])}

get_genres_rows(q) ==
    {r \in [sg : SongGenres, city : Cities, region : Regions, country : Countries,
            fund : fund] :
        /\ song[r.sg[1]].city_id = r.city               \* .join(City, Song.city_id == City.id)
        /\ CityRegion[r.city] = r.region                \* .join(Region, City.region_id == Region.id)
        /\ CityCountry[r.city] = r.country              \* .join(Country, City.country_id == Country.id)
        /\ song[r.sg[1]].fund_id = r.fund               \* .join(Fund, Song.fund_id == Fund.id)
        /\ BaseFilters(r.sg[1])
        /\ Opt(q.country_id, r.country)
        /\ Opt(q.region_id, r.region)
        /\ Opt(q.city_id, r.city)
        /\ Opt(q.fund_id, song[r.sg[1]].fund_id)}

get_funds_rows(q) ==
    {r \in [fund : fund, sg : SongGenres, city : Cities, region : Regions,
            country : Countries] :
        /\ r.fund = song[r.sg[1]].fund_id               \* .join(Song, Fund.id == Song.fund_id)
        /\ song[r.sg[1]].city_id = r.city               \* .join(City, Song.city_id == City.id)
        /\ CityRegion[r.city] = r.region                \* .join(Region, City.region_id == Region.id)
        /\ CityCountry[r.city] = r.country              \* .join(Country, City.country_id == Country.id)
        /\ BaseFilters(r.sg[1])
        /\ Opt(q.country_id, r.country)
        /\ Opt(q.region_id, r.region)
        /\ Opt(q.city_id, r.city)
        /\ Opt(q.genre_id, r.sg[2])}

\* the WHERE clause filter_songs and filter_song_geotags share
MapFilters(q, r) ==
    /\ BaseFilters(r.sg[1])
    /\ Opt(q.country_id, r.country)
    /\ Opt(q.region_id, r.region)
    /\ Opt(q.city_id, r.city)
    /\ Opt(q.fund_id, song[r.sg[1]].fund_id)
    /\ Opt(q.genre_id, r.sg[2])
    /\ q.search # <<>> => ILike(song[r.sg[1]].title, q.search)

\* select(Song).join(City).join(Region).join(Country).join(Song.genres)
filter_songs_rows(q) ==
    {r \in [sg : SongGenres, city : Cities, region : Regions, country : Countries] :
        /\ song[r.sg[1]].city_id = r.city
        /\ CityRegion[r.city] = r.region
        /\ RegionCountry[r.region] = r.country
        /\ MapFilters(q, r)}

\* select(City...).join(Song).join(Region).join(Country).join(Song.genres)
filter_song_geotags_rows(q) ==
    {r \in [city : Cities, sg : SongGenres, region : Regions, country : Countries] :
        /\ song[r.sg[1]].city_id = r.city
        /\ CityRegion[r.city] = r.region
        /\ RegionCountry[r.region] = r.country
        /\ MapFilters(q, r)}


\* the rows of a query grouped by Genre.id: the genre of the association row
\* as a column of its own
GenreColumn(rows) == {r @@ [genre |-> r.sg[2]] : r \in rows}

-----------------------------------------------------------------------------
(* Responses: 200 with a body, 404 with a detail, 500.                     *)

Ok(body) == [status |-> 200, detail |-> "", body |-> body]
NotFound(detail) == [status |-> 404, detail |-> detail, body |-> <<>>]
InternalError == [status |-> 500, detail |-> "error", body |-> <<>>]

\* the list of dictionaries without the test of `if not result`
FacetResponsesOfAnyResult(rows, col, name, key, detail) ==
    {Ok(l) : l \in FacetLists(rows, col, name, key)}

\* `if not result: raise NoResultFound`, else the list of dictionaries
FacetResponses(rows, col, name, key, detail) ==
    IF rows = {} THEN {NotFound(detail)}
    ELSE {Ok(l) : l \in FacetLists(rows, col, name, key)}

get_countries(q) ==
    FacetResponses(get_countries_rows(q), "country", CountryName, CountryName,
                   "NO_COUNTRY_FOUND")

get_regions(q) ==
    FacetResponses(get_regions_rows(q), "region", RegionName, RegionName, "NO_REGION_FOUND")

get_cities(q) ==
    FacetResponses(get_cities_rows(q), "city", CityName, CityName, "NO_CITIES_FOUND")

get_genres(q) ==
    FacetResponses(GenreColumn(get_genres_rows(q)), "genre", GenreName, Identity,
                   "NO_GENRES_FOUND")

get_funds(q) ==
    FacetResponses(get_funds_rows(q), "fund", FundTitle, Identity, "NO_FUND_FOUND")

\* f"{record.name}, {record.region_name}"
GeotagName == [c \in Cities |-> <<CityName[c], RegionName[CityRegion[c]]>>]

filter_song_geotags(q) ==
    FacetResponses(filter_song_geotags_rows(q), "city", GeotagName, Identity, "NO_SONG_FOUND")

RECURSIVE Repeat(_, _)
Repeat(x, n) == IF n = 0 THEN <<>> ELSE <<x>> \o Repeat(x, n - 1)

\* .order_by(desc(Song.id)): the Song of every row of the join, the greatest id first
RECURSIVE OrderedSongs(_, _)
OrderedSongs(rows, S) ==
    IF S = {} THEN <<>>
    ELSE LET m == CHOOSE x \in S : \A y \in S : y <= x
         IN  Repeat(m, Cardinality({r \in rows : r.sg[1] = m}))
                 \o OrderedSongs(rows, S \ {m})

\* Result.unique(): the first occurrence of every entity
RECURSIVE Unique(_)
Unique(seq) ==
    IF seq = <<>> THEN <<>>
    ELSE LET init == SubSeq(seq, 1, Len(seq) - 1)
             last == seq[Len(seq)]
         IN  IF In(last, init) THEN Unique(init) ELSE Append(Unique(init), last)

Min(a, b) == IF a < b THEN a ELSE b

\* paginate(session, query): the total is the count of the rows of the query,
\* the items are the entities of the rows of the page
paginate(rows, page) ==
    LET all == OrderedSongs(rows, {r.sg[1] : r \in rows})
        total == Len(all)
        first == (page - 1) * PageSize + 1
    IN  [items |-> Unique(SubSeq(all, first, Min(page * PageSize, total))),
         total |-> total, page |-> page, size |-> PageSize,
         pages |-> (total + PageSize - 1) \div PageSize]

filter_songs(q) ==
    LET result == paginate(filter_songs_rows(q), q.page)
    IN  IF result.items = <<>> THEN {NotFound("NO_SONG_FOUND")} ELSE {Ok(result)}

\* the endpoint a request is routed to
Endpoint(q) ==
    CASE q.func = "get_countries" -> get_countries(q)
      [] q.func = "get_regions" -> get_regions(q)
      [] q.func = "get_cities" -> get_cities(q)
      [] q.func = "get_genres" -> get_genres(q)
      [] q.func = "get_funds" -> get_funds(q)
      [] q.func = "filter_songs" -> filter_songs(q)
      [] q.func = "filter_song_geotags" -> filter_song_geotags(q)

-----------------------------------------------------------------------------
(* The read-through cache: @cache(expire=HOUR, key_builder=my_key_builder) *)

HOUR == 3600
TickStep == HOUR \div 2

NoResp == [status |-> 0]
NothingInFlight == [read |-> [pc |-> "idle"], write |-> [pc |-> "idle"]]
NoAdmin == [op |-> "none"]

\* redis.py:26-28: the key is built from the function name and the "id"
\* argument of the endpoint; the read endpoints of routers.py have none
my_key_builder(q) ==
    cache_key(q.func, IF "id" \in DOMAIN q THEN q.id ELSE NoArg)

\* an entry with expire=2 * HOUR
EntryTwoHours(q, r) == [value |-> r, expires |-> now + 2 * HOUR, req |-> q, stored |-> now]

\* the entry a response is stored as, with its time to live; req and stored
\* record the request it was computed for and when
Entry(q, r) == [value |-> r, expires |-> now + HOUR, req |-> q, stored |-> now]

\* a decorator that stores whatever the endpoint ends in
StoreAlways(key, q, r) == (key :> Entry(q, r)) @@ cache

\* an endpoint without the decorator: nothing is stored
StoreNever(key, q, r) == cache

\* what the decorator does with the outcome of the endpoint: a returned value
\* is stored, an HTTPException passes through it
Store(key, q, r) ==
    IF r.status = 200 THEN (key :> Entry(q, r)) @@ cache ELSE cache

\* the decorator with an error of the backend left to propagate: the request
\* fails
BackendErrorRaised(live) == {InternalError}

\* the decorator catches the error of backend.get_with_ttl and goes on as on a
\* miss: the outcomes are those of the endpoint
OnBackendError(live) == live

\* One request to a cached endpoint, whose outcomes on a miss are `live`.
\* A hit returns the stored value; a miss runs the endpoint.  up: the cache
\* store answers; when it does not, the lookup finds nothing and the error of
\* backend.set is caught as well.  dbok is kept in the response of a miss.
Cached(q, live, up, dbok) ==
    LET key == my_key_builder(q)
    IN  /\ nreq' = nreq + 1
        /\ IF up /\ key \in DOMAIN cache
           THEN /\ resp' = [req |-> q, hit |-> TRUE, for |-> cache[key].req, at |-> now,
                            stored |-> cache[key].stored, up |-> TRUE,
                            dberror |-> FALSE] @@ cache[key].value
                /\ cache' = cache
           ELSE \E r \in (IF up THEN live ELSE OnBackendError(live)) :
                /\ resp' = [req |-> q, hit |-> FALSE, for |-> q, at |-> now,
                            stored |-> now, up |-> up, dberror |-> ~dbok] @@ r
                /\ cache' = IF up THEN Store(key, q, r) ELSE cache
        /\ admin' = NoAdmin
        /\ UNCHANGED <<song, genre, fund, now, nwrite, inflight>>

\* a request to a read endpoint of routers.py.  dbok: the data store answers;
\* when it does not, `except Exception` turns the error into a 500
Request(q, dbok, up) ==
    Cached(q, IF dbok THEN Endpoint(q) ELSE {InternalError}, up, dbok)

\* routers.py:565-582, an endpoint without the cache decorator.  session.get
\* returns None for an id without a row, and the list given to all() is built
\* before all() runs: record.is_active of None raises AttributeError, which
\* `except Exception` turns into a 500
get_song_on_map_by_id(id) ==
    IF id \notin DOMAIN song THEN {InternalError}
    ELSE IF song[id].is_active /\ song[id].education_genres = {}
         THEN {Ok([id |-> id] @@ song[id])}
         ELSE {NotFound("NO_DATA_FOUND")}

\* one request to /filter/songs/{id}
SongLookup(id) ==
    /\ nreq' = nreq + 1
    /\ \E r \in get_song_on_map_by_id(id) :
           resp' = [req |-> [func |-> "get_song_on_map_by_id", id |-> id], hit |-> FALSE,
                    for |-> [func |-> "get_song_on_map_by_id", id |-> id], at |-> now,
                    stored |-> now, up |-> TRUE, dberror |-> FALSE] @@ r
    /\ admin' = NoAdmin
    /\ UNCHANGED <<song, genre, fund, cache, now, nwrite, inflight>>

\* the cached endpoint of the education pages, keyed by its id argument
get_songs_by_education_genre(id) ==
    LET found == {s \in DOMAIN song : id \in song[s].education_genres}
    IN  IF found = {} THEN {NotFound("NO_DATA_FOUND")} ELSE {Ok(found)}

EducationRequest(id) ==
    Cached([func |-> "get_songs_by_education_genre", id |-> id],
           get_songs_by_education_genre(id), TRUE, TRUE)

\* the redis clock advances; expired keys are gone
Tick ==
    /\ now < MaxTicks * TickStep
    /\ now' = now + TickStep
    /\ cache' = [k \in {x \in DOMAIN cache : cache[x].expires > now'} |-> cache[k]]
    /\ admin' = NoAdmin
    /\ UNCHANGED <<song, genre, fund, resp, nreq, nwrite, inflight>>

-----------------------------------------------------------------------------
(* The single-request specification: a data store drawn from the tables    *)
(* the schema allows, an empty cache, and one request.                     *)

QuerySong1 ==
    {r \in SongRow : /\ r.fund_id \in {1, 2}
                     /\ r.genres \in {{}, {1}, {1, 2}}
                     /\ r.education_genres \in {{}, {1}}
                     /\ r.title = <<"A", "b">>}

QuerySong2 ==
    {[city_id |-> 2, fund_id |-> 1, genres |-> {1}, education_genres |-> {},
      is_active |-> TRUE, title |-> <<"b", "a">>],
     [city_id |-> 3, fund_id |-> 2, genres |-> {2, 3}, education_genres |-> {},
      is_active |-> TRUE, title |-> <<"b", "a">>]}

QueryTables ==
    {(1 :> a) : a \in QuerySong1} \cup {(1 :> a) @@ (2 :> b) : a \in QuerySong1, b \in QuerySong2}

InitQuery ==
    /\ song \in QueryTables
    /\ genre = GenreIds
    /\ fund = FundIds
    /\ cache = <<>>
    /\ now = 0
    /\ resp = NoResp
    /\ admin = NoAdmin
    /\ nreq = 0
    /\ nwrite = 0
    /\ inflight = NothingInFlight

ReadOnce == \E q \in Requests : nreq = 0 /\ Request(q, TRUE, TRUE)

LookupOnce == \E id \in SongIds : nreq = 0 /\ SongLookup(id)

NextQuery == ReadOnce \/ LookupOnce

SpecQuery == InitQuery /\ [][NextQuery]_vars

-----------------------------------------------------------------------------
(* Cache invalidation and the admin views of src/admin/song.py.            *)

\* a key begins with the key of a function name
BeginsWith(key, func) ==
    LET p == cache_key(func, NoArg)
    IN  Len(p) <= Len(key) /\ SubSeq(key, 1, Len(p)) = p

\* redis.delete(cache_key(func, None)) for every function: the key of the bare
\* name alone is removed
invalidate_cache_each(funcs) ==
    [k \in {x \in DOMAIN cache : \A f \in funcs : x # cache_key(f, NoArg)} |-> cache[k]]

\* a flush of the whole cache
invalidate_cache_flush(funcs) == <<>>

\* invalidate_cache_partial(funcs): the cache without the keys of the functions
invalidate_cache_partial(funcs) ==
    [k \in {x \in DOMAIN cache : \A f \in funcs : ~BeginsWith(x, f)} |-> cache[k]]

\* the keys an invalidation has removed
Dropped(after) == DOMAIN cache \ DOMAIN after

\* the list without "get_genres"
invalidate_func_list_without_genres ==
    {"get_songs_by_education_genre", "filter_song_geotags", "filter_songs",
     "get_countries", "get_regions", "get_cities", "get_funds"}

\* SongAdmin.invalidate_func_list
invalidate_func_list ==
    {"get_songs_by_education_genre", "filter_song_geotags", "filter_songs",
     "get_countries", "get_regions", "get_cities", "get_genres", "get_funds"}

\* GenreAdmin.after_model_delete
GenreInvalidateList == {"filter_songs"}

\* FundAdmin defines no after_model_delete
FundInvalidateList == {}

\* the validators of SongAdmin.form_args: fund and city are required, one of
\* genres and education_genres is required, each holds at most five
ValidSongForm(data) ==
    /\ data.fund_id \in fund
    /\ data.city_id \in Cities
    /\ data.genres \subseteq genre
    /\ data.genres # {} \/ data.education_genres # {}
    /\ Cardinality(data.genres) <= 5
    /\ Cardinality(data.education_genres) <= 5

NextSongId == IF DOMAIN song = {} THEN 1 ELSE 1 + CHOOSE x \in DOMAIN song : \A y \in DOMAIN song : y <= x

\* SongAdmin: a song is created or edited, then after_model_change runs
SongAdminChange(id, data) ==
    /\ nwrite < MaxWrites
    /\ id \in SongIds
    /\ id \in DOMAIN song \/ id = NextSongId
    /\ ValidSongForm(data)
    /\ nwrite' = nwrite + 1
    /\ song' = (id :> data) @@ song
    /\ cache' = invalidate_cache_partial(invalidate_func_list)
    /\ admin' = [op |-> "song_change", pk |-> id, result |-> "saved",
                 is_created |-> id \notin DOMAIN song,
                 invalidated |-> invalidate_func_list, dropped |-> Dropped(cache')]
    /\ resp' = NoResp
    /\ UNCHANGED <<genre, fund, now, nreq, inflight>>

\* SongAdmin: a song is deleted, then after_model_delete runs
SongAdminDelete(id) ==
    /\ nwrite < MaxWrites
    /\ id \in DOMAIN song
    /\ nwrite' = nwrite + 1
    /\ song' = [s \in DOMAIN song \ {id} |-> song[s]]
    /\ cache' = invalidate_cache_partial(invalidate_func_list)
    /\ admin' = [op |-> "song_delete", pk |-> id, result |-> "deleted",
                 invalidated |-> invalidate_func_list, dropped |-> Dropped(cache')]
    /\ resp' = NoResp
    /\ UNCHANGED <<genre, fund, now, nreq, inflight>>

\* the relationship narrowed to the songs the public endpoints show
GenreSongsPublicOnly(pk) ==
    {s \in DOMAIN song : pk \in song[s].genres /\ BaseFilters(s)}

\* Genre.songs and Fund.songs: the songs of the relationship
GenreSongs(pk) == {s \in DOMAIN song : pk \in song[s].genres}

\* delete_model without the check of records[0].songs
FundSongsUnchecked(pk) == {}

FundSongs(pk) == {s \in DOMAIN song : song[s].fund_id = pk}

\* the error message: the entity and ', '.join(map(str, songs))
\* listed: the number of entries the join puts in the message, one for every song
ErrorMessage(pk, songs) ==
    [entity |-> pk, songs |-> {song[s].title : s \in songs}, listed |-> Cardinality(songs)]

\* GenreAdmin.delete_model, and after_model_delete when the row is deleted
GenreAdminDelete(pk) ==
    /\ nwrite < MaxWrites
    /\ pk \in genre
    /\ nwrite' = nwrite + 1
    /\ IF GenreSongs(pk) # {}
       THEN /\ admin' = [op |-> "genre_delete", pk |-> pk, result |-> "error",
                         error_message |-> ErrorMessage(pk, GenreSongs(pk))]
            /\ UNCHANGED <<genre, cache>>
       ELSE /\ genre' = genre \ {pk}
            /\ cache' = invalidate_cache_partial(GenreInvalidateList)
            /\ admin' = [op |-> "genre_delete", pk |-> pk, result |-> "deleted",
                         invalidated |-> GenreInvalidateList, dropped |-> Dropped(cache')]
    /\ resp' = NoResp
    /\ UNCHANGED <<song, fund, now, nreq, inflight>>

\* FundAdmin.delete_model
FundAdminDelete(pk) ==
    /\ nwrite < MaxWrites
    /\ pk \in fund
    /\ nwrite' = nwrite + 1
    /\ IF FundSongs(pk) # {}
       THEN /\ admin' = [op |-> "fund_delete", pk |-> pk, result |-> "error",
                         error_message |-> ErrorMessage(pk, FundSongs(pk))]
            /\ UNCHANGED <<fund, cache>>
       ELSE /\ fund' = fund \ {pk}
            /\ cache' = invalidate_cache_partial(FundInvalidateList)
            /\ admin' = [op |-> "fund_delete", pk |-> pk, result |-> "deleted",
                         invalidated |-> FundInvalidateList, dropped |-> Dropped(cache')]
    /\ resp' = NoResp
    /\ UNCHANGED <<song, genre, now, nreq, inflight>>

-----------------------------------------------------------------------------
(* The specification of the whole: reads through the cache, admin writes   *)
(* and the clock, from a small catalogue.                                  *)

InitSongs ==
    (1 :> [city_id |-> 1, fund_id |-> 1, genres |-> {1, 2}, education_genres |-> {},
           is_active |-> TRUE, title |-> <<"A", "b">>])
    @@ (2 :> [city_id |-> 3, fund_id |-> 2, genres |-> {}, education_genres |-> {1, 2},
              is_active |-> TRUE, title |-> <<"b", "a">>])

\* the forms the admin submits
SongForms ==
    {[city_id |-> 2, fund_id |-> 1, genres |-> {2}, education_genres |-> {},
      is_active |-> TRUE, title |-> <<"A", "b">>],
     [city_id |-> 3, fund_id |-> 2, genres |-> {}, education_genres |-> {1},
      is_active |-> TRUE, title |-> <<"b", "a">>]}

\* the education pages the callers open
EducationPages == {1, 2}

\* the requests the callers send
SentRequests ==
    {q \in Requests : /\ q.search = <<>> /\ q.country_id = <<>> /\ q.region_id = <<>>
                      /\ q.city_id = <<>> /\ q.fund_id = <<>> /\ q.page = 1
                      /\ q.genre_id \in {<<>>, <<1>>}
                      /\ q.genre_id = <<1>> => q.func \in {"get_countries", "filter_songs"}}

Init ==
    /\ song = InitSongs
    /\ genre = GenreIds
    /\ fund = FundIds
    /\ cache = <<>>
    /\ now = 0
    /\ resp = NoResp
    /\ admin = NoAdmin
    /\ nreq = 0
    /\ nwrite = 0
    /\ inflight = NothingInFlight

Read ==
    \E q \in SentRequests, dbok \in BOOLEAN, up \in BOOLEAN :
        nreq < MaxRequests /\ Request(q, dbok, up)
SongChange == \E id \in SongIds, data \in SongForms : SongAdminChange(id, data)
SongDelete == \E id \in SongIds : SongAdminDelete(id)
GenreDelete == \E pk \in GenreIds : GenreAdminDelete(pk)
FundDelete == \E pk \in FundIds : FundAdminDelete(pk)
EducationRead == \E id \in EducationPages : nreq < MaxRequests /\ EducationRequest(id)

Next ==
    Read \/ EducationRead \/ SongChange \/ SongDelete \/ GenreDelete \/ FundDelete \/ Tick

Spec == Init /\ [][Next]_vars

-----------------------------------------------------------------------------
(* The specification of the taxonomy guard: a data store drawn from the    *)
(* tables the schema allows, and one delete of a genre or of a fund.       *)

\* a third song of fund 1, beside the two of QueryTables
GuardSong3 ==
    {[city_id |-> 1, fund_id |-> 1, genres |-> g, education_genres |-> {},
      is_active |-> FALSE, title |-> <<"b", "a">>] : g \in {{1}, {1, 3}}}

GuardTables ==
    QueryTables \cup {t @@ (3 :> c) : t \in {x \in QueryTables : DOMAIN x = {1, 2}},
                                      c \in GuardSong3}

InitGuard ==
    /\ song \in GuardTables
    /\ genre = GenreIds
    /\ fund = FundIds
    /\ cache = <<>>
    /\ now = 0
    /\ resp = NoResp
    /\ admin = NoAdmin
    /\ nreq = 0
    /\ nwrite = 0
    /\ inflight = NothingInFlight

NextGuard == GenreDelete \/ FundDelete

SpecGuard == InitGuard /\ [][NextGuard]_vars

-----------------------------------------------------------------------------
(* The interleaving specification: one read request and one admin write of *)
(* a song, each taken await by await.  The request awaits the cache lookup, *)
(* the query and the cache store; the write awaits the commit and then the *)
(* hook that invalidates.  Nothing in the code orders the two.             *)

\* the decorator awaits backend.get_with_ttl: a hit is answered at once
ReadLookup(q) ==
    LET key == my_key_builder(q)
    IN  /\ inflight.read.pc = "idle"
        /\ IF key \in DOMAIN cache
           THEN /\ resp' = [req |-> q, hit |-> TRUE, for |-> cache[key].req, at |-> now,
                            stored |-> cache[key].stored, up |-> TRUE,
                            dberror |-> FALSE] @@ cache[key].value
                /\ nreq' = nreq + 1
                /\ inflight' = [inflight EXCEPT !.read = [pc |-> "done", req |-> q]]
           ELSE /\ inflight' = [inflight EXCEPT !.read = [pc |-> "missed", req |-> q]]
                /\ UNCHANGED <<resp, nreq>>
        /\ UNCHANGED <<song, genre, fund, cache, now, admin, nwrite>>

\* the endpoint awaits session.execute(query): the rows of the tables as they
\* are now
ReadQuery ==
    /\ inflight.read.pc = "missed"
    /\ \E r \in Endpoint(inflight.read.req) :
           inflight' = [inflight EXCEPT !.read = [pc |-> "queried", req |-> @.req,
                                                  value |-> r, snapshot |-> song]]
    /\ UNCHANGED <<song, genre, fund, cache, now, resp, admin, nreq, nwrite>>

\* the decorator awaits backend.set and returns the result
ReadStore ==
    LET q == inflight.read.req
        r == inflight.read.value
    IN  /\ inflight.read.pc = "queried"
        /\ cache' = Store(my_key_builder(q), q, r)
        /\ resp' = [req |-> q, hit |-> FALSE, for |-> q, at |-> now, stored |-> now,
                    up |-> TRUE, dberror |-> FALSE] @@ r
        /\ nreq' = nreq + 1
        /\ inflight' = [inflight EXCEPT !.read.pc = "done"]
        /\ UNCHANGED <<song, genre, fund, now, admin, nwrite>>

\* the admin view commits the insert or update of a song
SongCommitChange(id, data) ==
    /\ inflight.write.pc = "idle"
    /\ id \in DOMAIN song \/ id = NextSongId
    /\ ValidSongForm(data)
    /\ song' = (id :> data) @@ song
    /\ inflight' = [inflight EXCEPT !.write = [pc |-> "committed", before |-> song,
                        op |-> [kind |-> "song_change", id |-> id, data |-> data]]]
    /\ UNCHANGED <<genre, fund, cache, now, resp, admin, nreq, nwrite>>

\* the admin view commits the delete of a song
SongCommitDelete(id) ==
    /\ inflight.write.pc = "idle"
    /\ id \in DOMAIN song
    /\ song' = [s \in DOMAIN song \ {id} |-> song[s]]
    /\ inflight' = [inflight EXCEPT !.write = [pc |-> "committed", before |-> song,
                        op |-> [kind |-> "song_delete", id |-> id]]]
    /\ UNCHANGED <<genre, fund, cache, now, resp, admin, nreq, nwrite>>

\* after_model_change / after_model_delete: the hook awaits the invalidation
SongAfterModel ==
    /\ inflight.write.pc = "committed"
    /\ cache' = invalidate_cache_partial(invalidate_func_list)
    /\ admin' = [op |-> inflight.write.op.kind, pk |-> inflight.write.op.id,
                 result |-> "done", invalidation |-> "done",
                 invalidated |-> invalidate_func_list, dropped |-> Dropped(cache')]
    /\ nwrite' = nwrite + 1
    /\ inflight' = [inflight EXCEPT !.write.pc = "done"]
    /\ UNCHANGED <<song, genre, fund, now, resp, nreq>>

\* the tables with the write of the failed hook taken back
TablesRolledBack == inflight.write.before

\* the tables after the hook has failed: the commit has been made before the
\* hook was called, and nothing takes it back
TablesAfterFailedHook == song

\* the hook fails, the cache store being unavailable: nothing is deleted
SongAfterModelFails ==
    /\ inflight.write.pc = "committed"
    /\ song' = TablesAfterFailedHook
    /\ admin' = [op |-> inflight.write.op.kind, pk |-> inflight.write.op.id,
                 result |-> "done", invalidation |-> "failed",
                 invalidated |-> invalidate_func_list, dropped |-> {}]
    /\ nwrite' = nwrite + 1
    /\ inflight' = [inflight EXCEPT !.write.pc = "done"]
    /\ UNCHANGED <<genre, fund, cache, now, resp, nreq>>

RaceLookup == \E q \in SentRequests : ReadLookup(q)
RaceCommitChange == \E id \in SongIds, data \in SongForms : SongCommitChange(id, data)
RaceCommitDelete == \E id \in SongIds : SongCommitDelete(id)

NextRace ==
    \/ RaceLookup \/ ReadQuery \/ ReadStore
    \/ RaceCommitChange \/ RaceCommitDelete \/ SongAfterModel \/ SongAfterModelFails

SpecRace == Init /\ [][NextRace]_vars

-----------------------------------------------------------------------------
(* What the claims speak of, stated over the tables and not over the       *)
(* queries.                                                                *)

FacetOf(func) ==
    CASE func = "get_countries" -> "country"
      [] func = "get_regions" -> "region"
      [] func = "get_cities" -> "city"
      [] func = "get_genres" -> "genre"
      [] func = "get_funds" -> "fund"
      [] func = "filter_song_geotags" -> "city"

ParamOf(dim) ==
    CASE dim = "country" -> "country_id"
      [] dim = "region" -> "region_id"
      [] dim = "city" -> "city_id"
      [] dim = "genre" -> "genre_id"
      [] dim = "fund" -> "fund_id"

Dimensions == {"country", "region", "city", "genre", "fund"}

\* the record s belongs to the value v of a dimension
Belongs(s, dim, v) ==
    CASE dim = "country" -> RegionCountry[CityRegion[song[s].city_id]] = v
      [] dim = "region" -> CityRegion[song[s].city_id] = v
      [] dim = "city" -> song[s].city_id = v
      [] dim = "genre" -> v \in song[s].genres
      [] dim = "fund" -> song[s].fund_id = v

\* the parameters an endpoint declares
Declared(func) ==
    IF func \in FacetFuncs THEN ListParams \ {ParamOf(FacetOf(func))} ELSE ListParams

\* the records that are active, outside the education catalogue, and satisfy
\* every filter the request supplies to its endpoint
Matching(q) ==
    {s \in DOMAIN song :
        /\ song[s].is_active
        /\ song[s].education_genres = {}
        /\ \A dim \in Dimensions :
              (ParamOf(dim) \in Declared(q.func) /\ q[ParamOf(dim)] # <<>>)
                  => \E i \in DOMAIN q[ParamOf(dim)] : Belongs(s, dim, q[ParamOf(dim)][i])
        /\ (q.func \notin FacetFuncs /\ q.search # <<>>) => ILike(song[s].title, q.search)}

IsRead(r) == r.status # 0 /\ r.req.func \in ReadFuncs
Payload(r) == [status |-> r.status, detail |-> r.detail, body |-> r.body]

\* C3: a record with an education genre contributes to no facet count and to no
\* geotag count, and is on no page of the result list: every count is at most
\* the number of matching records outside the education catalogue that belong
\* to the value, and every item of a page is outside the education catalogue.
C3_EducationExcluded ==
    (IsRead(resp) /\ resp.status = 200) =>
        IF resp.req.func = "filter_songs"
        THEN \A i \in DOMAIN resp.body.items :
                 /\ resp.body.items[i] \in DOMAIN song
                 /\ song[resp.body.items[i]].education_genres = {}
        ELSE \A i \in DOMAIN resp.body :
                 resp.body[i].song_count <=
                     Cardinality({s \in Matching(resp.req) :
                                     Belongs(s, FacetOf(resp.req.func), resp.body[i].id)})

C3_Witness ==
    /\ IsRead(resp) /\ resp.status = 200 /\ resp.req.func = "get_cities"
    /\ \E s \in DOMAIN song :
          /\ song[s].education_genres # {} /\ song[s].is_active /\ song[s].genres # {}
          /\ \E i \in DOMAIN resp.body : resp.body[i].id = song[s].city_id

C5_PageDistinct ==
    (IsRead(resp) /\ resp.status = 200 /\ resp.req.func = "filter_songs") =>
        /\ \A i, j \in DOMAIN resp.body.items :
               i # j => resp.body.items[i] # resp.body.items[j]
        /\ resp.body.total = Cardinality({r.sg[1] : r \in filter_songs_rows(resp.req)})

-----------------------------------------------------------------------------
(* The claims about the cache and the admin views, under Spec.             *)

\* the filter parameters of a request, normalised: the ids of every list and
\* the search string
Norm(q) == [p \in ListParams |-> {q[p][i] : i \in DOMAIN q[p]}] @@ [search |-> q.search]

ListingFuncs == {"filter_songs"}

\* C1: a response cached for one filter combination is never served to a
\* request of the same endpoint with another filter combination.
C1_ServedForOwnFilters ==
    (IsRead(resp) /\ resp.hit) => Norm(resp.for) = Norm(resp.req)

\* C2: no cache entry of a read endpoint is stale, no entry of a function of the
\* Record invalidation list survives a Record mutation, and every response
\* reflects the data store as it is.
C2_InvalidationComplete ==
    /\ \A k \in DOMAIN cache :
           cache[k].req.func \in ReadFuncs => cache[k].value \in Endpoint(cache[k].req)
    /\ admin.op \in {"song_change", "song_delete"} =>
           \A k \in DOMAIN cache : k[2] \notin ReadFuncs
    /\ (IsRead(resp) /\ resp.status = 200) => Payload(resp) \in Endpoint(resp.for)

C2_Witness ==
    /\ admin.op = "song_change"
    /\ \E k \in admin.dropped : k[2] = "get_genres"

\* C6: a Genre or Fund delete removes the entity exactly when no Record is
\* associated with it; otherwise it returns the conflict naming the entity and
\* the blocking Records and the entity stays.
C6_TaxonomyGuard ==
    /\ admin.op = "genre_delete" =>
          LET blocking == {s \in DOMAIN song : admin.pk \in song[s].genres}
          IN  IF blocking = {}
              THEN admin.result = "deleted" /\ admin.pk \notin genre
              ELSE /\ admin.result = "error" /\ admin.pk \in genre
                   /\ admin.error_message.entity = admin.pk
                   /\ admin.error_message.songs # {}
                   /\ admin.error_message.songs \subseteq {song[s].title : s \in blocking}
    /\ admin.op = "fund_delete" =>
          LET blocking == {s \in DOMAIN song : song[s].fund_id = admin.pk}
          IN  IF blocking = {}
              THEN admin.result = "deleted" /\ admin.pk \notin fund
              ELSE /\ admin.result = "error" /\ admin.pk \in fund
                   /\ admin.error_message.entity = admin.pk
                   /\ admin.error_message.songs # {}
                   /\ admin.error_message.songs \subseteq {song[s].title : s \in blocking}

C6_Witness ==
    /\ admin.op = "fund_delete" /\ admin.result = "error"
    /\ \E s \in DOMAIN song : song[s].fund_id = admin.pk

\* C7: after a Genre delete that succeeded the cache holds no entry of get_genres
\* nor of the Record-listing functions, and after a Fund delete that succeeded no
\* entry of get_funds nor of the Record-listing functions.
C7_TaxonomyDeleteInvalidates ==
    /\ (admin.op = "genre_delete" /\ admin.result = "deleted") =>
           \A k \in DOMAIN cache : k[2] \notin ({"get_genres"} \cup ListingFuncs)
    /\ (admin.op = "fund_delete" /\ admin.result = "deleted") =>
           \A k \in DOMAIN cache : k[2] \notin ({"get_funds"} \cup ListingFuncs)

\* the request of this step repeats the last request, no invalidation has come
\* between them, the time to live of the first has not elapsed, and the cache
\* store has answered both
Repeats ==
    /\ IsRead(resp) /\ nreq' = nreq + 1 /\ IsRead(resp')
    /\ resp'.req = resp.req
    /\ now < resp.stored + HOUR
    /\ resp.up /\ resp'.up

\* C8 as claimed: the second of two successive identical requests is served from
\* the cache with the payload of the first, whatever the first returned.
C8_RepeatServedFromCache ==
    [][Repeats => (resp'.hit /\ Payload(resp') = Payload(resp))]_vars

\* C8 amended: the second of two successive identical requests is served from
\* the cache with the payload of the first when the first returned a
\* successful response.
C8_RepeatOfSuccessServedFromCache ==
    [][(Repeats /\ resp.status = 200) => (resp'.hit /\ Payload(resp') = Payload(resp))]_vars

C8_Witness ==
    /\ IsRead(resp) /\ resp.hit /\ resp.status = 200
    /\ resp.for = resp.req /\ resp.stored < resp.at

\* C9: every entry carries a time to live of one hour from its store, no entry
\* outlives it, and no response is served from an entry an hour old or older.
C9_OneHourTTL ==
    /\ \A k \in DOMAIN cache :
           cache[k].expires = cache[k].stored + HOUR /\ now < cache[k].stored + HOUR
    /\ (resp.status # 0 /\ resp.hit) => resp.at < resp.stored + HOUR

C9_Witness ==
    /\ IsRead(resp) /\ resp.status = 200 /\ ~resp.hit
    /\ resp.stored + HOUR <= now
    /\ my_key_builder(resp.req) \notin DOMAIN cache

\* C10: after an invalidation of function names no entry whose key begins with
\* one of the names remains, whatever the arguments it was stored for.
C10_AllVariantsRemoved ==
    (admin.op # "none" /\ admin.result \in {"saved", "deleted"}) =>
        \A k \in DOMAIN cache : k[2] \notin admin.invalidated

C10_Witness ==
    /\ admin.op = "song_change"
    /\ Cardinality({k \in admin.dropped : k[2] = "get_songs_by_education_genre"}) >= 2

-----------------------------------------------------------------------------
(* The claims about single requests, under SpecQuery.                      *)

RECURSIVE Reverse(_)
Reverse(list) == IF list = <<>> THEN <<>> ELSE Append(Reverse(Tail(list)), Head(list))

\* the request with the ids of every list parameter in the opposite order
Permuted(q) == [p \in ListParams |-> Reverse(q[p])] @@ q

\* C11: a request and the request with the same filters in another order of the
\* ids have the same cache key and the same results: the response of the one is
\* a response of the other, and the two have the same set of outcomes.
C11_OrderInvariant ==
    IsRead(resp) =>
        /\ my_key_builder(Permuted(resp.req)) = my_key_builder(resp.req)
        /\ Endpoint(Permuted(resp.req)) = Endpoint(resp.req)
        /\ Payload(resp) \in Endpoint(Permuted(resp.req))

C11_Witness ==
    /\ IsRead(resp) /\ resp.status = 200 /\ resp.req.func = "filter_songs"
    /\ resp.req.country_id = <<2, 1>> /\ Permuted(resp.req).country_id = <<1, 2>>
    /\ resp.req.genre_id = <<1>>
    /\ Endpoint(resp.req) # Endpoint([resp.req EXCEPT !.country_id = <<1>>])
    /\ Endpoint(resp.req) # Endpoint([resp.req EXCEPT !.country_id = <<2>>])

\* C12: the point lookup returns the detail of the Record when an active Record
\* outside the education catalogue has the id, and NotFound otherwise, an id
\* without any Record included.
C12_LookupFoundOrNotFound ==
    (resp.status # 0 /\ resp.req.func = "get_song_on_map_by_id") =>
        IF /\ resp.req.id \in DOMAIN song
           /\ song[resp.req.id].is_active
           /\ song[resp.req.id].education_genres = {}
        THEN resp.status = 200 /\ resp.body = [id |-> resp.req.id] @@ song[resp.req.id]
        ELSE resp.status = 404

\* C13: when no record matches the filters of a request to a facet, result-list
\* or geotag endpoint the outcome is the 404 of NoResultFound, and a successful
\* response never carries an empty list.
C13_NoRowsIsNotFound ==
    IsRead(resp) =>
        /\ Matching(resp.req) = {} => (resp.status = 404 /\ resp.detail # InternalError.detail)
        /\ resp.status = 200 =>
              IF resp.req.func = "filter_songs" THEN resp.body.items # <<>>
              ELSE resp.body # <<>>
        /\ resp.status \in {200, 404}

C13_Witness ==
    /\ IsRead(resp) /\ resp.status = 404 /\ resp.req.func = "filter_song_geotags"
    /\ resp.req.fund_id # <<>>
    /\ Matching(resp.req) = {}
    /\ Matching([resp.req EXCEPT !.fund_id = <<>>]) # {}

\* C14: a record with is_active = false contributes to no facet count and to no
\* geotag count and is on no page: every count is at most the number of active
\* records that belong to the value, and every item of a page is active.
C14_InactiveExcluded ==
    (IsRead(resp) /\ resp.status = 200) =>
        IF resp.req.func = "filter_songs"
        THEN \A i \in DOMAIN resp.body.items :
                 /\ resp.body.items[i] \in DOMAIN song
                 /\ song[resp.body.items[i]].is_active
        ELSE \A i \in DOMAIN resp.body :
                 resp.body[i].song_count <=
                     Cardinality({s \in DOMAIN song :
                                     /\ song[s].is_active
                                     /\ Belongs(s, FacetOf(resp.req.func), resp.body[i].id)})

C14_Witness ==
    /\ IsRead(resp) /\ resp.status = 200 /\ resp.req.func = "get_regions"
    /\ \E s \in DOMAIN song :
          /\ ~song[s].is_active /\ song[s].education_genres = {} /\ song[s].genres # {}
          /\ \E i \in DOMAIN resp.body : resp.body[i].id = CityRegion[song[s].city_id]

\* the column a facet endpoint orders by, as a function of the id
OrderKey(func) ==
    CASE func = "get_countries" -> CountryName
      [] func = "get_regions" -> RegionName
      [] func = "get_cities" -> CityName
      [] func = "get_genres" -> Identity
      [] func = "get_funds" -> Identity

\* C15: the facet list is ascending in the name (country, region, city) or in
\* the id (genre, fund), and two values with equal names are in ascending order
\* of their ids.
C15_FacetOrderDeterministic ==
    (IsRead(resp) /\ resp.status = 200 /\ resp.req.func \in FacetFuncs) =>
        \A i, j \in DOMAIN resp.body :
            i < j =>
                LET key == OrderKey(resp.req.func)
                    a == resp.body[i].id
                    b == resp.body[j].id
                IN  key[a] < key[b] \/ (key[a] = key[b] /\ a < b)

\* C20: the facet of a dimension does not depend on the ids of that dimension
\* the caller has selected: with any other selection of them the endpoint has
\* the same outcomes.
C20_FacetIgnoresOwnFilter ==
    (IsRead(resp) /\ resp.req.func \in FacetFuncs) =>
        \A l \in IdLists :
            LET other == [resp.req EXCEPT ![ParamOf(FacetOf(resp.req.func))] = l]
            IN  Endpoint(other) = Endpoint(resp.req) /\ Payload(resp) \in Endpoint(other)

C20_Witness ==
    /\ IsRead(resp) /\ resp.status = 200 /\ resp.req.func = "get_genres"
    /\ resp.req.genre_id = <<1>> /\ resp.req.fund_id # <<>>
    /\ \E i \in DOMAIN resp.body : resp.body[i].id = 2
    /\ Endpoint(resp.req) # Endpoint([resp.req EXCEPT !.fund_id = <<>>])

-----------------------------------------------------------------------------
(* The claims about the cache store and the invalidation, under Spec.      *)

C19_OtherEntriesKept ==
    [][(admin'.op # "none") =>
          IF admin'.result = "error" THEN cache' = cache
          ELSE \A k \in DOMAIN cache :
                   k[2] \notin admin'.invalidated =>
                       (k \in DOMAIN cache' /\ cache'[k] = cache[k])]_vars

C19_Witness ==
    /\ admin.op = "genre_delete" /\ admin.result = "deleted"
    /\ \E k \in admin.dropped : k[2] = "filter_songs"
    /\ \E k \in DOMAIN cache :
          k[2] \in {"get_countries", "get_regions", "get_cities", "get_funds",
                    "filter_song_geotags"}

-----------------------------------------------------------------------------
(* The claims about requests and writes that overlap, under SpecRace.      *)

\* the write in flight is in the tables
Committed ==
    IF inflight.write.op.kind = "song_change"
    THEN /\ inflight.write.op.id \in DOMAIN song
         /\ song[inflight.write.op.id] = inflight.write.op.data
    ELSE inflight.write.op.id \notin DOMAIN song

\* C17: once the invalidation of a Record mutation has completed, the cache
\* holds no entry of an invalidated function that was computed from the tables
\* as they were before the commit.
C17_NoPreCommitEntryAfterInvalidation ==
    (inflight.write.pc = "done" /\ admin.invalidation = "done") =>
        \A k \in DOMAIN cache :
            (k[2] \in invalidate_func_list /\ inflight.read.pc = "done"
                /\ cache[k].req = inflight.read.req /\ "snapshot" \in DOMAIN inflight.read)
                => inflight.read.snapshot # inflight.write.before

\* C18: cache keys are removed by an admin write only in the hook that runs
\* after the commit, with the write already in the tables, never before; and
\* when the hook fails the write stays in the tables.
C18_InvalidationAfterCommit ==
    /\ [](inflight.write.pc \in {"committed", "done"} => Committed)
    /\ [][(DOMAIN cache \ DOMAIN cache' # {}) =>
             (inflight.write.pc = "committed" /\ Committed /\ song' = song)]_vars

C18_Witness ==
    /\ inflight.write.pc = "done" /\ admin.invalidation = "failed"
    /\ Committed /\ song # inflight.write.before
    /\ \E k \in DOMAIN cache : k[2] \in invalidate_func_list

-----------------------------------------------------------------------------
(* The claims about the taxonomy guard, under SpecGuard.                   *)

\* the cap of the enumerated list the guard is to keep
EnumerationCap == 2

\* the Records associated with the entity of the last delete
Blocking ==
    IF admin.op = "genre_delete" THEN {s \in DOMAIN song : admin.pk \in song[s].genres}
    ELSE {s \in DOMAIN song : song[s].fund_id = admin.pk}

\* C21: the message of a blocked Genre or Fund delete lists at most
\* EnumerationCap blocking Records, however many there are.
C21_EnumerationCapped ==
    (admin.op \in {"genre_delete", "fund_delete"} /\ admin.result = "error") =>
        admin.error_message.listed <= EnumerationCap

\* the Records that refer to the entity of the last delete in any way, the
\* ids of education_genres read as ids of genres
Referring ==
    IF admin.op = "genre_delete"
    THEN {s \in DOMAIN song : admin.pk \in song[s].genres \cup song[s].education_genres}
    ELSE {s \in DOMAIN song : song[s].fund_id = admin.pk}

-----------------------------------------------------------------------------
(* More claims about the cache, under Spec.                                *)

\* C23: a read request that ends in NotFound or in an internal error (a timeout
\* of the data store is one) leaves the cache as it was, every entry holds a
\* successful response, and the identical request that follows a failure is
\* not served from the cache.
C23_FailureNotCached ==
    /\ [](\A k \in DOMAIN cache : cache[k].value.status = 200)
    /\ [][(nreq' = nreq + 1 /\ resp'.status # 200) => cache' = cache]_vars
    /\ [][(Repeats /\ resp.status # 200) => ~resp'.hit]_vars

C23_Witness ==
    /\ IsRead(resp) /\ resp.status = 404 /\ resp.up /\ ~resp.hit /\ ~resp.dberror
    /\ nreq = 2
    /\ my_key_builder(resp.req) \notin DOMAIN cache
    /\ cache # <<>>

-----------------------------------------------------------------------------
(* The claim about the geotags, under SpecQuery.                           *)

====
